---------------------------- MODULE Spec2Model ----------------------------
(***************************************************************************)
(* Model of src/static/app.js: the activity board controller.             *)
(*                                                                         *)
(* The script is one DOMContentLoaded handler that defines fetchActivities *)
(* and unregisterParticipant, installs a delegated click listener and a    *)
(* submit listener, and calls fetchActivities() once.  Every handler runs  *)
(* on the single UI thread; an async function runs to its next `await`     *)
(* and is resumed by the arrival of the response.  One action of the       *)
(* model is one such run-to-completion segment.                            *)
(*                                                                         *)
(* Text is a sequence of one-character strings.  The alphabet is letters,  *)
(* digits and the double quote, the one character of it that is special    *)
(* inside a double-quoted attribute value.  Time is counted in seconds.    *)
(***************************************************************************)
EXTENDS Integers, Sequences, FiniteSets, TLC

VARIABLES
    activitiesList,   \* content of #activities-list
    activitySelect,   \* options appended to #activity by the script
    messageDiv,       \* #message: textContent, className, hidden class
    form,             \* #signup-form fields: email and selected activity
    timers,           \* pending setTimeout callbacks
    pendingReads,     \* GET /activities requests awaiting a response
    readsIssued,      \* number of GET /activities requests sent so far
    pendingMuts,      \* POST / DELETE requests awaiting a response
    mutsIssued,       \* number of POST / DELETE requests sent so far
    passes,           \* history: completed fetch-and-render passes, by outcome
    lastCatalog,      \* history: response of the last pass that rendered
    prevCatalog,      \* history: response of the pass that rendered before it
    messageBy,        \* history: the operation that wrote messageDiv last
    lastOp            \* history: the listener or resumed handler that ran last

vars == <<activitiesList, activitySelect, messageDiv, form, timers,
          pendingReads, readsIssued, pendingMuts, mutsIssued, passes,
          lastCatalog, prevCatalog, messageBy, lastOp>>

---------------------------------------------------------------------------
(* Bounds of the model.                                                    *)

\* Signup and unregister requests per run.  Each one triggers at most one
\* refresh, so a run sends at most MaxMuts + 1 GET /activities requests.
MaxMuts == 2
\* Entries per catalog, participants per entry, and largest max_participants
\* of the catalogs of the page-load specification SpecRender.
MaxEntries == 2
MaxParts == 2
MaxCap == 2
\* The same for the catalogs of the workflow specification Spec.
FlowEntries == 1
FlowParts == 1
FlowCap == 0

---------------------------------------------------------------------------
(* Text.                                                                   *)

Quote == "\""
Digits == <<"0", "1", "2", "3", "4", "5", "6", "7", "8", "9">>

\* Activity names: a plain one, one that is a canonical array index, one
\* holding a double quote.
Names == { <<"c">>, <<"7">>, <<"a", Quote, "b">> }
\* Participant emails: a plain one and one holding a double quote.
Emails == { <<"x">>, <<"y", Quote, "z">> }

IsDigit(ch) == \E d \in 1..10 : Digits[d] = ch
DigitValue(ch) == (CHOOSE d \in 1..10 : Digits[d] = ch) - 1

RECURSIVE NumericValue(_)
NumericValue(s) ==
    IF s = <<>> THEN 0
    ELSE 10 * NumericValue(SubSeq(s, 1, Len(s) - 1)) + DigitValue(s[Len(s)])

\* An own property key that ECMAScript treats as an integer index: a
\* canonical numeric string (no leading zero) below 2^32 - 1.
IsArrayIndex(s) ==
    /\ s # <<>>
    /\ \A i \in DOMAIN s : IsDigit(s[i])
    /\ (Len(s) > 1 => s[1] # "0")
    /\ Len(s) <= 9

\* The injective sequences over S of length at most n.
SeqsUpTo(S, n) ==
    UNION { { s \in [1..k -> S] : \A i, j \in 1..k : i # j => s[i] # s[j] }
            : k \in 0..n }

---------------------------------------------------------------------------
(* The body of GET /activities.  A catalog is the JSON object's members   *)
(* in the order of the response text: <<[name, details], ...>>, names      *)
(* distinct.  details is the member's value; a value without a            *)
(* participants array is malformed.                                        *)

DetailsOver(emails, cap, parts) ==
    { [max_participants |-> m, participants |-> p] :
        m \in 0..cap, p \in SeqsUpTo(emails, parts) }
    \cup { [max_participants |-> cap] }

CatalogsOver(names, emails, entries, cap, parts) ==
    { c \in UNION { [1..k -> [name : names, details : DetailsOver(emails, cap, parts)]]
                    : k \in 0..entries } :
        \A i, j \in DOMAIN c : i # j => c[i].name # c[j].name }

RenderCatalogs == CatalogsOver(Names, Emails, MaxEntries, MaxCap, MaxParts)
\* The workflow runs over one plain name and one plain email.
FlowNames == { <<"c">> }
FlowEmails == { <<"x">> }
FlowCatalogs == CatalogsOver(FlowNames, FlowEmails, FlowEntries, FlowCap, FlowParts)
\* The refreshes run over two names, one of them an array index.
RefreshNames == FlowNames \cup { <<"7">> }
RefreshCatalogs ==
    CatalogsOver(RefreshNames, FlowEmails, MaxEntries, FlowCap, FlowParts)

---------------------------------------------------------------------------
(* fetchActivities: the render of one response.                            *)

\* Object.entries(activities): integer-index keys first in ascending
\* numeric order, then the other keys in insertion order.
RECURSIVE SortByIndex(_)
SortByIndex(S) ==
    IF S = {} THEN <<>>
    ELSE LET least == CHOOSE e \in S :
                        \A f \in S : NumericValue(e.name) <= NumericValue(f.name)
         IN  <<least>> \o SortByIndex(S \ {least})

ObjectEntries(activities) ==
    LET indexed == { activities[i] : i \in { j \in DOMAIN activities :
                                             IsArrayIndex(activities[j].name) } }
        IsOther(e) == ~IsArrayIndex(e.name)
    IN  SortByIndex(indexed) \o SelectSeq(activities, IsOther)

\* `details.participants.length` throws a TypeError on this value.
Throws(details) == "participants" \notin DOMAIN details

\* Mutant of SpotsLeft: the operands of the subtraction swapped.
SpotsLeftSwapped(details) == Len(details.participants) - details.max_participants

\* line 21
SpotsLeft(details) == details.max_participants - Len(details.participants)

\* The value the HTML parser gives a double-quoted attribute written as
\* attr="${text}": the text up to its first double quote.
RECURSIVE AttributeValue(_)
AttributeValue(text) ==
    IF text = <<>> \/ text[1] = Quote THEN <<>>
    ELSE <<text[1]>> \o AttributeValue(Tail(text))

\* One <li>: the email shown and the button's data attributes as the
\* click listener reads them back with getAttribute.
ParticipantRow(name, participant) ==
    [ email        |-> participant,
      dataActivity |-> AttributeValue(name),
      dataEmail    |-> AttributeValue(participant) ]

\* One div.activity-card.
ActivityCard(name, details) ==
    [ title          |-> name,
      spotsLeft      |-> SpotsLeft(details),
      noParticipants |-> ~(Len(details.participants) > 0),
      rows           |-> IF Len(details.participants) > 0
                         THEN [ i \in 1..Len(details.participants) |->
                                  ParticipantRow(name, details.participants[i]) ]
                         ELSE <<>> ]

\* One <option>: value and textContent are set as DOM properties.
Option(name) == [ value |-> name, label |-> name ]

\* The forEach of lines 17-66 from entry k on: each entry appends a card
\* and an option; a throwing entry ends the loop, with what was appended
\* before it left in place.
RECURSIVE ForEachEntry(_, _, _, _)
ForEachEntry(entries, k, cards, options) ==
    IF k > Len(entries) THEN [ threw |-> FALSE, cards |-> cards, options |-> options ]
    ELSE IF Throws(entries[k].details)
         THEN [ threw |-> TRUE, cards |-> cards, options |-> options ]
         ELSE ForEachEntry(entries, k + 1,
                           Append(cards, ActivityCard(entries[k].name, entries[k].details)),
                           Append(options, Option(entries[k].name)))

InitialList == [ kind |-> "initial", cards |-> <<>> ]
FailureList == [ kind |-> "failed", cards |-> <<>> ]
CardList(cards) == [ kind |-> "cards", cards |-> cards ]

\* Mutant of RenderPass: line 14 is missing, the cards are appended to the
\* list already shown.
RenderPassAppends(activities, select) ==
    LET r == ForEachEntry(ObjectEntries(activities), 1, activitiesList.cards, select)
    IN  [ threw  |-> r.threw,
          list   |-> IF r.threw THEN FailureList ELSE CardList(r.cards),
          select |-> r.options ]

\* Mutant of RenderPass: the catch block leaves the list as the loop left
\* it, with the cards appended before the entry that threw.
RenderPassKeepsPartial(activities, select) ==
    LET r == ForEachEntry(ObjectEntries(activities), 1, <<>>, select)
    IN  [ threw  |-> r.threw,
          list   |-> CardList(r.cards),
          select |-> r.options ]

\* Lines 14-70 on a parsed response: the list is cleared and rebuilt, or
\* replaced by the failure message in the catch block; the select only
\* ever has options appended.
RenderPass(activities, select) ==
    LET r == ForEachEntry(ObjectEntries(activities), 1, <<>>, select)
    IN  [ threw  |-> r.threw,
          list   |-> IF r.threw THEN FailureList ELSE CardList(r.cards),
          select |-> r.options ]

---------------------------------------------------------------------------
(* Requests, responses and the status message.                             *)

\* setTimeout delays, in seconds: 5000 ms and 3000 ms.
HideDelay == 5
\* Mutant of UnregisterSuccessHideDelay: the success path waits as long as
\* the error paths.
UnregisterSuccessHidesLate == HideDelay
UnregisterSuccessHideDelay == 3

\* encodeURIComponent on the alphabet: letters and digits are unreserved,
\* the double quote becomes %22.
EncodeURIComponent(text) ==
    [ i \in DOMAIN text |-> IF text[i] = Quote THEN "%22" ELSE text[i] ]

\* What `await fetch(...)` followed by `await response.json()` yields for a
\* POST or DELETE: a 2xx status with {message}, another status with
\* {detail} or without it, or a rejection (no response, or a body that is
\* not JSON).
ServerMessages == { "Signed up a@b.com" }
ServerDetails == { "Already signed up", "" }
Responses ==
    { [status |-> "2xx", message |-> m] : m \in ServerMessages }
    \cup { [status |-> "non2xx", detail |-> d] : d \in ServerDetails }
    \cup { [status |-> "non2xx"], [status |-> "rejected"] }
NoResponse == [status |-> "none"]

\* Mutant of DetailOr: the handler reads result.message on the error path.
MessageOr(resp, fallback) ==
    IF "message" \in DOMAIN resp /\ resp.message # "" THEN resp.message ELSE fallback

\* `result.detail || fallback`: undefined and the empty string are falsy.
DetailOr(resp, fallback) ==
    IF "detail" \in DOMAIN resp /\ resp.detail # "" THEN resp.detail ELSE fallback

SignupFallback == "An error occurred"
SignupFailure == "Failed to sign up. Please try again."
UnregisterFallback == "Failed to unregister participant"
UnregisterFailure == "Failed to unregister participant. Please try again."

\* Mutant of ShowMessage: the severity is added with classList.add, so the
\* class of the message before stays.
ShowMessageAddsClass(text, severity) ==
    [ text |-> text, classes |-> (messageDiv.classes \cup {severity}) \ {"hidden"} ]

\* textContent = text; className = severity; classList.remove("hidden").
\* Assigning className replaces the whole class list.
ShowMessage(text, severity) ==
    [ text |-> text, classes |-> {severity} \ {"hidden"} ]

\* classList.add("hidden")
HideMessage(div) == [ div EXCEPT !.classes = @ \cup {"hidden"} ]

\* setTimeout(hide, delay) called while handling request id.
SetTimeout(pending, delay, id) == pending \cup { [remaining |-> delay, by |-> id] }

\* signupForm.reset(): both fields back to their empty defaults.
EmptyForm == [ email |-> <<>>, activity |-> <<>> ]
\* Mutant of FormReset: the reset is left out.
FormResetSkipped(f) == f
FormReset(f) == EmptyForm

Visible == "hidden" \notin messageDiv.classes

\* A new request may be sent while the run's budget of requests lasts.
CanSend == mutsIssued < MaxMuts

\* A GET /activities request, and the absence of a request.
ReadRequest(id) == [ id |-> id, op |-> "read", activity |-> <<>>, email |-> <<>> ]
NoRequest == [ id |-> 0, op |-> "none", activity |-> <<>>, email |-> <<>> ]

\* The record of a handler segment: which one ran, on which request, and
\* what it was resumed with.
Op(op, req, resp) == [ op |-> op, req |-> req, resp |-> resp ]

---------------------------------------------------------------------------
(* The state after the DOMContentLoaded handler has run: the listeners     *)
(* are installed and the first GET /activities is in flight.               *)

Init ==
    /\ activitiesList = InitialList
    /\ activitySelect = <<>>
    /\ messageDiv = [ text |-> "", classes |-> {"hidden"} ]
    /\ form = EmptyForm
    /\ timers = {}
    /\ pendingReads = {1}
    /\ readsIssued = 1
    /\ pendingMuts = {}
    /\ mutsIssued = 0
    /\ passes = [ ok |-> 0, failed |-> 0 ]
    /\ lastCatalog = <<>>
    /\ prevCatalog = <<>>
    /\ messageBy = [ id |-> 0, op |-> "none" ]
    /\ lastOp = Op("load", ReadRequest(1), NoResponse)

\* Mutant of FetchActivities: the new GET aborts the ones in flight.
FetchActivitiesCancelsPending ==
    /\ readsIssued' = readsIssued + 1
    /\ pendingReads' = {readsIssued + 1}

\* Mutant of FetchActivities: the refresh call is missing.
FetchActivitiesNotCalled == UNCHANGED <<readsIssued, pendingReads>>

\* fetchActivities() called from a handler: one more GET in flight.
FetchActivities ==
    /\ readsIssued' = readsIssued + 1
    /\ pendingReads' = pendingReads \cup {readsIssued + 1}

---------------------------------------------------------------------------
(* fetchActivities resumed.                                                *)

\* The response arrived and parsed: lines 11-66, and 67-70 when an entry
\* throws.
FetchRendered(catalogs) ==
    \E id \in pendingReads, activities \in catalogs :
        LET r == RenderPass(activities, activitySelect)
        IN  /\ activitiesList' = r.list
            /\ activitySelect' = r.select
            /\ pendingReads' = pendingReads \ {id}
            /\ passes' = IF r.threw THEN [passes EXCEPT !.failed = @ + 1]
                                    ELSE [passes EXCEPT !.ok = @ + 1]
            /\ lastCatalog' = IF r.threw THEN lastCatalog ELSE activities
            /\ prevCatalog' = IF r.threw THEN prevCatalog ELSE lastCatalog
            /\ lastOp' = Op("render", ReadRequest(id), [status |-> "parsed"])
            /\ UNCHANGED <<messageDiv, form, timers, readsIssued, pendingMuts,
                           mutsIssued, messageBy>>

\* fetch() rejected or the body was not JSON: lines 67-70.
FetchRejected ==
    \E id \in pendingReads :
        /\ activitiesList' = FailureList
        /\ pendingReads' = pendingReads \ {id}
        /\ passes' = [passes EXCEPT !.failed = @ + 1]
        /\ lastOp' = Op("render", ReadRequest(id), [status |-> "rejected"])
        /\ UNCHANGED <<activitySelect, messageDiv, form, timers, readsIssued,
                       pendingMuts, mutsIssued, lastCatalog, prevCatalog, messageBy>>

---------------------------------------------------------------------------
(* The signup form.                                                        *)

\* The user types an email and picks one of the select's options.
UserFillsForm(emails) ==
    \E email \in emails, i \in DOMAIN activitySelect :
        /\ form' = [ email |-> email, activity |-> activitySelect[i].value ]
        /\ form' # form
        /\ UNCHANGED <<activitiesList, activitySelect, messageDiv, timers,
                       pendingReads, readsIssued, pendingMuts, mutsIssued,
                       passes, lastCatalog, prevCatalog, messageBy, lastOp>>

\* submit listener up to its first await: lines 134-146.
SignupSubmit ==
    /\ CanSend
    /\ pendingMuts' = pendingMuts \cup
         { [ id |-> mutsIssued + 1, op |-> "signup",
             activity |-> EncodeURIComponent(form.activity),
             email |-> EncodeURIComponent(form.email) ] }
    /\ mutsIssued' = mutsIssued + 1
    /\ lastOp' = Op("signup-submit",
                    [ id |-> mutsIssued + 1, op |-> "signup",
                      activity |-> form.activity, email |-> form.email ],
                    NoResponse)
    /\ UNCHANGED <<activitiesList, activitySelect, messageDiv, form, timers,
                   pendingReads, readsIssued, passes, lastCatalog, prevCatalog, messageBy>>

\* submit listener resumed: lines 148-172.
SignupResume ==
    \E req \in pendingMuts, resp \in Responses :
        /\ req.op = "signup"
        /\ pendingMuts' = pendingMuts \ {req}
        /\ messageBy' = [ id |-> req.id, op |-> "signup" ]
        /\ lastOp' = Op("signup-resume", req, resp)
        /\ CASE resp.status = "2xx" ->
                  /\ messageDiv' = ShowMessage(resp.message, "success")
                  /\ form' = FormReset(form)
                  /\ FetchActivities
                  /\ timers' = SetTimeout(timers, HideDelay, req.id)
             [] resp.status = "non2xx" ->
                  /\ messageDiv' = ShowMessage(DetailOr(resp, SignupFallback), "error")
                  /\ timers' = SetTimeout(timers, HideDelay, req.id)
                  /\ UNCHANGED <<form, pendingReads, readsIssued>>
             [] OTHER ->
                  /\ messageDiv' = ShowMessage(SignupFailure, "error")
                  /\ UNCHANGED <<form, pendingReads, readsIssued, timers>>
        /\ UNCHANGED <<activitiesList, activitySelect, mutsIssued, passes, lastCatalog, prevCatalog>>

---------------------------------------------------------------------------
(* Removing a participant.                                                 *)

\* Mutant of UnregisterParticipant: the answer of confirm() is ignored.
UnregisterWithoutConfirm(activityName, email, confirmed) ==
    /\ CanSend
    /\ pendingMuts' = pendingMuts \cup
         { [ id |-> mutsIssued + 1, op |-> "unregister",
             activity |-> EncodeURIComponent(activityName),
             email |-> EncodeURIComponent(email) ] }
    /\ mutsIssued' = mutsIssued + 1
    /\ UNCHANGED <<activitiesList, activitySelect, messageDiv, form, timers,
                   pendingReads, readsIssued, passes, lastCatalog, prevCatalog, messageBy>>

\* unregisterParticipant up to its first await: lines 83-94.  confirmed is
\* what confirm() returned.
UnregisterParticipant(activityName, email, confirmed) ==
    IF ~confirmed
    THEN UNCHANGED <<activitiesList, activitySelect, messageDiv, form, timers,
                     pendingReads, readsIssued, pendingMuts, mutsIssued,
                     passes, lastCatalog, prevCatalog, messageBy>>
    ELSE /\ CanSend
         /\ pendingMuts' = pendingMuts \cup
              { [ id |-> mutsIssued + 1, op |-> "unregister",
                  activity |-> EncodeURIComponent(activityName),
                  email |-> EncodeURIComponent(email) ] }
         /\ mutsIssued' = mutsIssued + 1
         /\ UNCHANGED <<activitiesList, activitySelect, messageDiv, form, timers,
                        pendingReads, readsIssued, passes, lastCatalog, prevCatalog, messageBy>>

\* The delegated click listener, for a click on the button of row j of
\* card i: lines 74-80.
DeleteClick ==
    \E i \in DOMAIN activitiesList.cards, confirmed \in BOOLEAN :
        \E j \in DOMAIN activitiesList.cards[i].rows :
            LET activityName == activitiesList.cards[i].rows[j].dataActivity
                email == activitiesList.cards[i].rows[j].dataEmail
            IN  /\ UnregisterParticipant(activityName, email, confirmed)
                /\ lastOp' = Op("delete-click",
                                [ id |-> IF confirmed THEN mutsIssued + 1 ELSE 0,
                                  op |-> "unregister",
                                  activity |-> activityName, email |-> email ],
                                [ status |-> IF confirmed THEN "confirmed"
                                                          ELSE "declined" ])

\* Mutant of UnregisterResume: the catch block also replaces the list by
\* the failure message, as the catch block of fetchActivities does.
UnregisterResumeCatchClearsList ==
    \E req \in pendingMuts, resp \in Responses :
        /\ req.op = "unregister"
        /\ pendingMuts' = pendingMuts \ {req}
        /\ messageBy' = [ id |-> req.id, op |-> "unregister" ]
        /\ lastOp' = Op("unregister-resume", req, resp)
        /\ CASE resp.status = "2xx" ->
                  /\ messageDiv' = ShowMessage(resp.message, "success")
                  /\ FetchActivities
                  /\ timers' = SetTimeout(timers, UnregisterSuccessHideDelay, req.id)
                  /\ UNCHANGED activitiesList
             [] resp.status = "non2xx" ->
                  /\ messageDiv' = ShowMessage(DetailOr(resp, UnregisterFallback), "error")
                  /\ timers' = SetTimeout(timers, HideDelay, req.id)
                  /\ UNCHANGED <<activitiesList, pendingReads, readsIssued>>
             [] OTHER ->
                  /\ messageDiv' = ShowMessage(UnregisterFailure, "error")
                  /\ timers' = SetTimeout(timers, HideDelay, req.id)
                  /\ activitiesList' = FailureList
                  /\ UNCHANGED <<pendingReads, readsIssued>>
        /\ UNCHANGED <<activitySelect, form, mutsIssued, passes,
                       lastCatalog, prevCatalog>>

\* unregisterParticipant resumed: lines 96-130.
UnregisterResume ==
    \E req \in pendingMuts, resp \in Responses :
        /\ req.op = "unregister"
        /\ pendingMuts' = pendingMuts \ {req}
        /\ messageBy' = [ id |-> req.id, op |-> "unregister" ]
        /\ lastOp' = Op("unregister-resume", req, resp)
        /\ CASE resp.status = "2xx" ->
                  /\ messageDiv' = ShowMessage(resp.message, "success")
                  /\ FetchActivities
                  /\ timers' = SetTimeout(timers, UnregisterSuccessHideDelay, req.id)
             [] resp.status = "non2xx" ->
                  /\ messageDiv' = ShowMessage(DetailOr(resp, UnregisterFallback), "error")
                  /\ timers' = SetTimeout(timers, HideDelay, req.id)
                  /\ UNCHANGED <<pendingReads, readsIssued>>
             [] OTHER ->
                  /\ messageDiv' = ShowMessage(UnregisterFailure, "error")
                  /\ timers' = SetTimeout(timers, HideDelay, req.id)
                  /\ UNCHANGED <<pendingReads, readsIssued>>
        /\ UNCHANGED <<activitiesList, activitySelect, form, mutsIssued, passes,
                       lastCatalog, prevCatalog>>

---------------------------------------------------------------------------
(* Timers.                                                                 *)

\* A due setTimeout callback runs: classList.add("hidden").
TimerFires ==
    \E t \in timers :
        /\ t.remaining = 0
        /\ timers' = timers \ {t}
        /\ messageDiv' = HideMessage(messageDiv)
        /\ UNCHANGED <<activitiesList, activitySelect, form, pendingReads,
                       readsIssued, pendingMuts, mutsIssued, passes, lastCatalog, prevCatalog,
                       messageBy, lastOp>>

\* One second passes; a due callback runs before more time passes.
Tick ==
    /\ timers # {}
    /\ \A t \in timers : t.remaining > 0
    /\ timers' = { [t EXCEPT !.remaining = @ - 1] : t \in timers }
    /\ UNCHANGED <<activitiesList, activitySelect, messageDiv, form, pendingReads,
                   readsIssued, pendingMuts, mutsIssued, passes, lastCatalog, prevCatalog,
                   messageBy, lastOp>>

---------------------------------------------------------------------------
(* Specifications.                                                         *)

\* The whole workflow over small catalogs.
Next ==
    \/ FetchRendered(FlowCatalogs)
    \/ FetchRejected
    \/ UserFillsForm(FlowEmails)
    \/ SignupSubmit
    \/ SignupResume
    \/ DeleteClick
    \/ UnregisterResume
    \/ TimerFires
    \/ Tick

Spec == Init /\ [][Next]_vars

\* The page load over every catalog within the bounds.
NextRender ==
    \/ FetchRendered(RenderCatalogs)
    \/ FetchRejected

SpecRender == Init /\ [][NextRender]_vars

\* The page load and the refreshes after signups, over catalogs of several
\* activities.
NextRefresh ==
    \/ FetchRendered(RefreshCatalogs)
    \/ FetchRejected
    \/ SignupSubmit
    \/ SignupResume

SpecRefresh == Init /\ [][NextRefresh]_vars

\* The page load and the clicks on the remove buttons, over every catalog
\* within the bounds; the delete requests stay in flight.
NextRemove ==
    \/ FetchRendered(RenderCatalogs)
    \/ FetchRejected
    \/ DeleteClick

SpecRemove == Init /\ [][NextRemove]_vars

---------------------------------------------------------------------------
(* Properties.                                                             *)

\* The step completes a fetch-and-render pass, and the pass failed.
PassFailed == passes'.failed = passes.failed + 1

\* The step resumes handler op on request req with a response of status st.
Resumed(op, st) ==
    /\ lastOp' # lastOp
    /\ lastOp'.op = op
    /\ lastOp'.req \in pendingMuts
    /\ lastOp'.resp.status = st

\* C1: after successful fetch-and-render passes only, the select holds
\* exactly one option per activity of the catalog rendered last, its value
\* and label the activity name.
C1_SelectHoldsLastCatalog ==
    (passes.ok > 0 /\ passes.failed = 0) =>
        /\ Len(activitySelect) = Len(lastCatalog)
        /\ \A i \in DOMAIN lastCatalog :
             \E k \in DOMAIN activitySelect :
                activitySelect[k] = [ value |-> lastCatalog[i].name,
                                      label |-> lastCatalog[i].name ]

\* C2: until the delay of the hide timer set for the message now in the
\* slot has run out, the message is visible: no earlier timer hides it.
C2_OwnTimerKeepsMessageVisible ==
    \A t \in timers : (t.by = messageBy.id /\ t.remaining > 0) => Visible

\* C3: a visible message written by the signup operation has a pending
\* hide timer of its own, whatever the outcome was.
C3_SignupMessageHasHideTimer ==
    (messageBy.op = "signup" /\ Visible) =>
        \E t \in timers : t.by = messageBy.id /\ t.remaining <= HideDelay

\* C4: a failed fetch-and-render pass leaves the failure message alone in
\* the list area and the select exactly as it was before the pass.
C4_FailedPassKeepsSelect ==
    [][ PassFailed =>
          /\ activitiesList' = [ kind |-> "failed", cards |-> <<>> ]
          /\ activitySelect' = activitySelect ]_vars

\* The entry of the catalog rendered last that is named name.
EntryNamed(name) ==
    lastCatalog[CHOOSE i \in DOMAIN lastCatalog : lastCatalog[i].name = name]
PositionOf(name) == CHOOSE i \in DOMAIN lastCatalog : lastCatalog[i].name = name

\* C5, as claimed: one card per entry, in response order, each showing
\* max_participants minus the number of participants.
C5_CardsInResponseOrder ==
    activitiesList.kind = "cards" =>
        /\ Len(activitiesList.cards) = Len(lastCatalog)
        /\ \A i \in DOMAIN lastCatalog :
             /\ activitiesList.cards[i].title = lastCatalog[i].name
             /\ activitiesList.cards[i].spotsLeft =
                  lastCatalog[i].details.max_participants
                    - Len(lastCatalog[i].details.participants)

\* a comes before b in the own-property order of the parsed object.
KeyBefore(a, b) ==
    CASE IsArrayIndex(a) /\ IsArrayIndex(b) -> NumericValue(a) < NumericValue(b)
      [] IsArrayIndex(a) /\ ~IsArrayIndex(b) -> TRUE
      [] ~IsArrayIndex(a) /\ IsArrayIndex(b) -> FALSE
      [] OTHER -> PositionOf(a) < PositionOf(b)

\* C5, amended: one card per entry, each showing max_participants minus
\* the number of participants; entries named by an array index come first,
\* in ascending numeric order, the others follow in response order.
C5_CardsInKeyOrder ==
    activitiesList.kind = "cards" =>
        LET cards == activitiesList.cards
        IN  /\ Len(cards) = Len(lastCatalog)
            /\ \A i \in DOMAIN lastCatalog :
                 \E k \in DOMAIN cards : cards[k].title = lastCatalog[i].name
            /\ \A k \in DOMAIN cards :
                 cards[k].spotsLeft =
                   EntryNamed(cards[k].title).details.max_participants
                     - Len(EntryNamed(cards[k].title).details.participants)
            /\ \A k, l \in DOMAIN cards :
                 k < l => KeyBefore(cards[k].title, cards[l].title)

\* C5 witness: two cards are shown, the response named the array-index
\* entry second, and a card shows 0 spots left for a full roster.
C5_Witness ==
    /\ activitiesList.kind = "cards"
    /\ Len(activitiesList.cards) = 2
    /\ IsArrayIndex(lastCatalog[2].name)
    /\ \E k \in DOMAIN activitiesList.cards :
         /\ activitiesList.cards[k].spotsLeft = 0
         /\ Len(activitiesList.cards[k].rows) = 2

\* C6: a card of an entry without participants shows the placeholder and
\* no removal control; any other card shows one control per participant,
\* in server order, whose data attributes read back as exactly the
\* activity name and that participant's email.
C6_ControlsCarryExactData ==
    activitiesList.kind = "cards" =>
        \A k \in DOMAIN activitiesList.cards :
            LET card == activitiesList.cards[k]
                participants == EntryNamed(card.title).details.participants
            IN  IF participants = <<>>
                THEN card.noParticipants /\ card.rows = <<>>
                ELSE /\ ~card.noParticipants
                     /\ Len(card.rows) = Len(participants)
                     /\ \A j \in DOMAIN participants :
                          /\ card.rows[j].dataActivity = card.title
                          /\ card.rows[j].dataEmail = participants[j]

\* The step sends exactly one new GET /activities.
OneReadIssued ==
    /\ readsIssued' = readsIssued + 1
    /\ readsIssued' \notin pendingReads
    /\ pendingReads' = pendingReads \cup {readsIssued'}

\* The step sends no GET /activities.
NoReadIssued == readsIssued' = readsIssued /\ pendingReads' = pendingReads

\* The step schedules exactly one callback, delay seconds from now.
HideScheduled(delay) ==
    /\ [remaining |-> delay, by |-> lastOp'.req.id] \notin timers
    /\ timers' = timers \cup { [remaining |-> delay, by |-> lastOp'.req.id] }

\* The detail of the response when it has a non-empty one, else fallback.
DetailShown(resp, fallback) ==
    IF "detail" \in DOMAIN resp THEN (IF resp.detail = "" THEN fallback ELSE resp.detail)
    ELSE fallback

\* C7: a 2xx response to a signup request puts the server's message in
\* the slot, visible with severity success, clears the form fields and
\* sends exactly one new read request.
C7_SignupSuccess ==
    [][ Resumed("signup-resume", "2xx") =>
          /\ messageDiv'.text = lastOp'.resp.message
          /\ messageDiv'.classes = {"success"}
          /\ form' = [ email |-> <<>>, activity |-> <<>> ]
          /\ OneReadIssued ]_vars

\* C7 witness: a signup sent from a filled form got its 2xx response; the
\* form is empty, the message visible and the refresh in flight.
C7_Witness ==
    /\ lastOp.op = "signup-resume"
    /\ lastOp.resp.status = "2xx"
    /\ lastOp.req.email # <<>>
    /\ form = EmptyForm
    /\ Visible
    /\ readsIssued \in pendingReads

\* C8: a non-2xx response to a signup request puts the server's detail,
\* or the generic fallback when there is none, in the slot with severity
\* error, leaves the form fields as they are and sends no read request.
C8_SignupFailure ==
    [][ Resumed("signup-resume", "non2xx") =>
          /\ messageDiv'.text = DetailShown(lastOp'.resp, "An error occurred")
          /\ messageDiv'.classes = {"error"}
          /\ form' = form
          /\ NoReadIssued ]_vars

\* C8 witness: a signup got a non-2xx response with a detail; the detail
\* is shown and the form is still filled.
C8_Witness ==
    /\ lastOp.op = "signup-resume"
    /\ lastOp.resp = [status |-> "non2xx", detail |-> "Already signed up"]
    /\ messageDiv.text = "Already signed up"
    /\ form.email # <<>>
    /\ pendingReads = {}

\* C9: a removal click whose confirmation is declined sends no delete and
\* no read request, schedules no timer, and leaves the status message,
\* the list and the select unchanged.
C9_DeclinedChangesNothing ==
    [][ (lastOp' # lastOp /\ lastOp'.op = "delete-click"
                          /\ lastOp'.resp.status = "declined") =>
          UNCHANGED <<pendingMuts, mutsIssued, pendingReads, readsIssued, timers,
                      messageDiv, activitiesList, activitySelect>> ]_vars

\* C9 witness: a confirmation was declined while a message was on display
\* and requests could still be sent.
C9_Witness ==
    /\ lastOp.op = "delete-click"
    /\ lastOp.resp.status = "declined"
    /\ Visible
    /\ CanSend

\* C10: a 2xx response to an unregister request shows the server's message
\* with severity success, schedules the hide 3 seconds later and sends
\* exactly one read request; a non-2xx response shows the detail or the
\* fallback, a transport failure the fixed text, both with severity error,
\* the hide 5 seconds later and no read request.
C10_UnregisterOutcomes ==
    [][ /\ Resumed("unregister-resume", "2xx") =>
             /\ messageDiv'.text = lastOp'.resp.message
             /\ messageDiv'.classes = {"success"}
             /\ HideScheduled(3)
             /\ OneReadIssued
        /\ Resumed("unregister-resume", "non2xx") =>
             /\ messageDiv'.text =
                  DetailShown(lastOp'.resp, "Failed to unregister participant")
             /\ messageDiv'.classes = {"error"}
             /\ HideScheduled(5)
             /\ NoReadIssued
        /\ Resumed("unregister-resume", "rejected") =>
             /\ messageDiv'.text = "Failed to unregister participant. Please try again."
             /\ messageDiv'.classes = {"error"}
             /\ HideScheduled(5)
             /\ NoReadIssued ]_vars

\* C10 witness: an unregister got its 2xx response; the message is
\* visible, its 3-second timer pending and the refresh in flight.
C10_Witness ==
    /\ lastOp.op = "unregister-resume"
    /\ lastOp.resp.status = "2xx"
    /\ messageDiv = [ text |-> lastOp.resp.message, classes |-> {"success"} ]
    /\ [remaining |-> 3, by |-> lastOp.req.id] \in timers
    /\ readsIssued \in pendingReads

\* The step completes a fetch-and-render pass that rendered its response.
PassRendered == passes'.ok = passes.ok + 1

\* C11: a pass that renders the catalog the list already shows (the
\* previous pass rendered it, and no pass failed since) leaves the list as
\* it was: the same cards, rosters and capacity texts.
C11_SecondPassSameList ==
    [][ ( /\ PassRendered
          /\ activitiesList.kind = "cards"
          /\ lastCatalog' = lastCatalog ) =>
        activitiesList' = activitiesList ]_vars

\* C11 witness: two passes, one after the other, rendered the same catalog
\* of two activities, one with a participant.
C11_Witness ==
    /\ passes = [ ok |-> 2, failed |-> 0 ]
    /\ lastOp.op = "render"
    /\ lastCatalog = prevCatalog
    /\ Len(lastCatalog) = 2
    /\ Len(activitiesList.cards) = 2
    /\ \E k \in 1..2 : activitiesList.cards[k].rows # <<>>

\* The step completes a fetch-and-render pass.
PassCompleted == lastOp' # lastOp /\ lastOp'.op = "render"

\* cards is one card per entry of catalog, each with the entry's name,
\* remaining capacity and roster.
ShowsCatalog(cards, catalog) ==
    /\ Len(cards) = Len(catalog)
    /\ \A i \in DOMAIN catalog :
         /\ "participants" \in DOMAIN catalog[i].details
         /\ \E k \in DOMAIN cards :
              LET d == catalog[i].details
              IN  /\ cards[k].title = catalog[i].name
                  /\ cards[k].spotsLeft = d.max_participants - Len(d.participants)
                  /\ cards[k].noParticipants = (d.participants = <<>>)
                  /\ Len(cards[k].rows) = Len(d.participants)
                  /\ \A j \in DOMAIN d.participants :
                       cards[k].rows[j].email = d.participants[j]

\* C12: the list starts as its initial content; a step that completes a
\* pass leaves it either the failure message or the complete cards of that
\* pass's response, whatever other passes are in flight; every other step
\* leaves it alone.  So it is never cleared, half-built or mixed.
C12_ListIsOneResponse ==
    /\ activitiesList = [ kind |-> "initial", cards |-> <<>> ]
    /\ [][ IF PassCompleted
           THEN \/ /\ PassFailed
                   /\ activitiesList' = [ kind |-> "failed", cards |-> <<>> ]
                \/ /\ PassRendered
                   /\ activitiesList'.kind = "cards"
                   /\ ShowsCatalog(activitiesList'.cards, lastCatalog')
           ELSE activitiesList' = activitiesList ]_vars

\* C12 witness: with another pass still in flight, the list shows the two
\* cards of the response rendered last and nothing of the different
\* response rendered before it.
C12_Witness ==
    /\ passes = [ ok |-> 2, failed |-> 0 ]
    /\ pendingReads # {}
    /\ Len(prevCatalog) = 2
    /\ Len(lastCatalog) = 2
    /\ activitiesList.kind = "cards"
    /\ ShowsCatalog(activitiesList.cards, lastCatalog)
    /\ ~ShowsCatalog(activitiesList.cards, prevCatalog)

\* C13: passes run side by side.  A read in flight stays in flight until
\* its own response arrives, whatever reads are issued meanwhile; a new
\* read is in flight at once, beside the older ones; and the response that
\* arrives is rendered then, whichever read it answers.
C13_PassesRunSideBySide ==
    [][ /\ \A id \in pendingReads :
             \/ id \in pendingReads'
             \/ PassCompleted /\ lastOp'.req.id = id
        /\ readsIssued' # readsIssued =>
             /\ readsIssued' = readsIssued + 1
             /\ pendingReads' = pendingReads \cup {readsIssued'}
        /\ PassCompleted =>
             /\ lastOp'.req.id \in pendingReads
             /\ pendingReads' = pendingReads \ {lastOp'.req.id}
             /\ PassRendered =>
                  ShowsCatalog(activitiesList'.cards, lastCatalog') ]_vars

\* C13 witness: the refresh after a successful signup was answered and
\* rendered first, the initial load last; the list shows the catalog
\* answered to the initial load, which differs from the refresh's.
C13_Witness ==
    /\ readsIssued = 2
    /\ pendingReads = {}
    /\ passes = [ ok |-> 2, failed |-> 0 ]
    /\ lastOp.op = "render"
    /\ lastOp.req.id = 1
    /\ messageBy.op = "signup"
    /\ messageDiv.classes = {"success"}
    /\ prevCatalog # lastCatalog
    /\ ShowsCatalog(activitiesList.cards, lastCatalog)
    /\ ~ShowsCatalog(activitiesList.cards, prevCatalog)

\* The step resumes a signup or an unregister whose request failed: a
\* non-2xx response or a transport failure.
MutationFailed ==
    \E op \in {"signup-resume", "unregister-resume"}, st \in {"non2xx", "rejected"} :
        Resumed(op, st)

\* C14: a signup or an unregister that ends in a non-2xx response or a
\* transport failure leaves the list, the select, the form and the reads
\* as they were; the step writes an error into the message slot.
C14_FailureKeepsRender ==
    [][ MutationFailed =>
          /\ activitiesList' = activitiesList
          /\ activitySelect' = activitySelect
          /\ form' = form
          /\ NoReadIssued
          /\ messageDiv'.classes = {"error"} ]_vars

\* C14 witness: an unregister failed in transport while the list showed a
\* card with a participant; the card and the option are still there.
C14_Witness ==
    /\ lastOp.op = "unregister-resume"
    /\ lastOp.resp.status = "rejected"
    /\ messageDiv.classes = {"error"}
    /\ activitiesList.kind = "cards"
    /\ Len(activitiesList.cards) = 1
    /\ activitiesList.cards[1].rows # <<>>
    /\ Len(activitySelect) = 1

\* The step resumes a signup or an unregister with a 2xx response.
MutationSucceeded ==
    \E op \in {"signup-resume", "unregister-resume"} : Resumed(op, "2xx")

\* C15 as stated: every signup or confirmed unregister that completes,
\* succeeded or failed, issues a new read request.
C15_EveryMutationRefetches ==
    [][ (MutationSucceeded \/ MutationFailed) => OneReadIssued ]_vars

\* C15, amended: a signup or unregister that got a 2xx response issues one
\* new read request, one that failed issues none, nothing else issues a
\* read, and a response that renders rebuilds the list from that response.
C15_SuccessRefetches ==
    [][ /\ MutationSucceeded => OneReadIssued
        /\ MutationFailed => NoReadIssued
        /\ readsIssued' # readsIssued => MutationSucceeded
        /\ PassRendered =>
             /\ activitiesList'.kind = "cards"
             /\ ShowsCatalog(activitiesList'.cards, lastCatalog') ]_vars

\* C15 witness: the one unregister sent succeeded, and the read it issued
\* was answered and rendered.
C15_Witness ==
    /\ mutsIssued = 1
    /\ pendingMuts = {}
    /\ messageBy.op = "unregister"
    /\ readsIssued = 2
    /\ lastOp.op = "render"
    /\ lastOp.req.id = 2
    /\ lastOp.resp.status = "parsed"
    /\ activitiesList.kind = "cards"
    /\ ShowsCatalog(activitiesList.cards, lastCatalog)

\* The text and severity the handler op shows for response resp.
OutcomeShown(op, resp) ==
    IF resp.status = "2xx"
    THEN [ text |-> resp.message, severity |-> "success" ]
    ELSE IF resp.status = "non2xx"
    THEN [ text |-> DetailShown(resp, IF op = "signup-resume"
                                      THEN "An error occurred"
                                      ELSE "Failed to unregister participant"),
           severity |-> "error" ]
    ELSE [ text |-> IF op = "signup-resume"
                    THEN "Failed to sign up. Please try again."
                    ELSE "Failed to unregister participant. Please try again.",
           severity |-> "error" ]

\* C16: a step that completes a signup or an unregister puts the text and
\* the severity of that one outcome into the slot, replacing both; no
\* other step changes the text or the severity.  So the slot always holds
\* the whole outcome of the operation that completed last.
C16_SlotHoldsLastOutcome ==
    [][ IF MutationSucceeded \/ MutationFailed
        THEN LET shown == OutcomeShown(lastOp'.op, lastOp'.resp)
             IN  /\ messageDiv' = [ text |-> shown.text, classes |-> {shown.severity} ]
                 /\ messageBy'.id = lastOp'.req.id
        ELSE /\ messageDiv'.text = messageDiv.text
             /\ messageDiv'.classes \ {"hidden"} = messageDiv.classes \ {"hidden"}
             /\ messageBy' = messageBy ]_vars

\* C16 witness: of two requests in flight together the second succeeded
\* first and the first then got a non-2xx response; the slot shows the
\* first request's error, text and severity.
C16_Witness ==
    /\ mutsIssued = 2
    /\ pendingMuts = {}
    /\ readsIssued = 2
    /\ lastOp.op = "signup-resume"
    /\ lastOp.req.id = 1
    /\ lastOp.resp = [ status |-> "non2xx", detail |-> "Already signed up" ]
    /\ messageBy.id = 1
    /\ messageDiv = [ text |-> "Already signed up", classes |-> {"error"} ]
    /\ \E t \in timers : t.by = 2

\* The delete requests the step sends.
DeletesSent == { r \in pendingMuts' \ pendingMuts : r.op = "unregister" }

\* The catalog rendered last has an activity and a participant of it that
\* the request r names in its URL.
TargetsRenderedPair(r) ==
    \E i \in DOMAIN lastCatalog :
        /\ "participants" \in DOMAIN lastCatalog[i].details
        /\ EncodeURIComponent(lastCatalog[i].name) = r.activity
        /\ \E j \in DOMAIN lastCatalog[i].details.participants :
             EncodeURIComponent(lastCatalog[i].details.participants[j]) = r.email

\* C17: a delete request is sent only by a click whose confirmation was
\* accepted, one request per such click, and it names an activity and a
\* participant that appear together in the response the list was rendered
\* from.
C17_DeleteTargetsRenderedPair ==
    [][ /\ \A r \in DeletesSent :
             /\ lastOp'.op = "delete-click"
             /\ lastOp'.resp.status = "confirmed"
             /\ DeletesSent = {r}
             /\ TargetsRenderedPair(r)
        /\ (lastOp' # lastOp /\ lastOp'.op = "delete-click"
               /\ lastOp'.resp.status = "confirmed") => DeletesSent # {} ]_vars

\* C17 without its last clause: a delete request is sent only by a click
\* whose confirmation was accepted, one per such click, for the pair the
\* clicked control carries; a failed request is not sent again.
C17_OneDeletePerAcceptedClick ==
    [][ /\ \A r \in DeletesSent :
             /\ lastOp'.op = "delete-click"
             /\ lastOp'.resp.status = "confirmed"
             /\ DeletesSent = {r}
             /\ \E i \in DOMAIN activitiesList.cards :
                  \E j \in DOMAIN activitiesList.cards[i].rows :
                    LET row == activitiesList.cards[i].rows[j]
                    IN  /\ r.activity = EncodeURIComponent(row.dataActivity)
                        /\ r.email = EncodeURIComponent(row.dataEmail)
        /\ (lastOp' # lastOp /\ lastOp'.op = "delete-click"
               /\ lastOp'.resp.status = "confirmed") => DeletesSent # {} ]_vars

===========================================================================
